---------------------------- MODULE Spec2Model ----------------------------
(***************************************************************************)
(* State-machine model of the SkillSwap client (src/frontend/src/App.js):  *)
(* the session store (AuthProvider), the authentication forms, the         *)
(* dashboard (directory, outgoing and incoming swap-request lists), the    *)
(* profile editor, the HTTP calls in flight with the continuation each     *)
(* one resumes, and the backend those calls reach.                         *)
(*                                                                         *)
(* One step of the model is one completed event handler or one completed   *)
(* continuation of an async handler (the code between two awaits),         *)
(* together with the render and the effects that follow it.                *)
(***************************************************************************)
EXTENDS Integers, Sequences, FiniteSets, TLC

(***************************************************************************)
(* Bounds of the model.                                                    *)
(***************************************************************************)
\* HTTP calls one browser may have in flight at a time
MaxInFlight == 2
\* swap-request records the backend may hold
MaxReq == 1
\* length of a free-text skills string typed into a form
MaxSkillLen == 3

(***************************************************************************)
(* Values.                                                                 *)
(***************************************************************************)
Null == "null"

\* the browsers; each runs its own copy of the application
Client == {"c1", "c2"}

\* user ids known to the backend
Users == {"A", "B"}

\* bearer tokens, and the user each one authenticates
Token == {"tA", "tB"}

UserOf(t) == IF t = "tA" THEN "A" ELSE "B"

TokenOf(u) == IF u = "A" THEN "tA" ELSE "tB"

\* what the login form may submit: the credentials of a user, or wrong ones
Credentials == Users \cup {"bad"}

Statuses == {"pending", "accepted", "rejected", "completed", "cancelled"}

Tabs == {"browse", "my-requests", "incoming"}

\* what the two prompt() calls may return: null (dismissed), the empty
\* string, or the text typed
RequestedAnswers == {Null, "", "Guitar"}

OfferedAnswers == {Null, "", "Spanish"}

\* files the file picker may hand over, by MIME type
FileTypes == {"image/png", "text/plain"}

\* user lists the backend may return for GET /users and GET /users/search
UserLists == {<<>>, <<"A">>, <<"B">>, <<"A", "B">>, <<"B", "A">>}

\* characters of a free-text skills string; " " stands for all whitespace
Chars == {"a", "b", ",", " "}

RECURSIVE StringsOfLen(_)
StringsOfLen(n) ==
  IF n = 0 THEN {<<>>}
  ELSE {Append(s, ch) : s \in StringsOfLen(n - 1), ch \in Chars}

\* the spec's own example, "a, b ,c," with c written b
ExampleStrings == {<<"a", ",", " ", "b", " ", ",", "b", ",">>}

SkillStrings ==
  UNION {StringsOfLen(n) : n \in 0..MaxSkillLen} \cup ExampleStrings

(***************************************************************************)
(* The skills encoding of the register form and the profile editor.       *)
(***************************************************************************)
\* String.prototype.split(','): the segments between commas, empty ones kept
RECURSIVE Split(_)
Split(s) ==
  IF \A i \in 1..Len(s) : s[i] # ","
  THEN <<s>>
  ELSE LET i == CHOOSE j \in 1..Len(s) :
                  s[j] = "," /\ \A k \in 1..(j - 1) : s[k] # ","
       IN <<SubSeq(s, 1, i - 1)>> \o Split(SubSeq(s, i + 1, Len(s)))

\* String.prototype.trim(): leading and trailing whitespace removed
RECURSIVE Trim(_)
Trim(s) ==
  IF s = <<>> THEN s
  ELSE IF Head(s) = " " THEN Trim(Tail(s))
  ELSE IF s[Len(s)] = " " THEN Trim(SubSeq(s, 1, Len(s) - 1))
  ELSE s

\* .map(s => s.trim())
MapTrim(segs) == [i \in 1..Len(segs) |-> Trim(segs[i])]

\* .filter(s => s): the empty string is falsy
Truthy(s) == s # <<>>

FilterTruthy(segs) == SelectSeq(segs, Truthy)

\* the encoding without the .map(s => s.trim())
ParseSkillsNoTrim(s) == FilterTruthy(Split(s))

\* formData.skills_offered.split(',').map(s => s.trim()).filter(s => s)
ParseSkills(s) == FilterTruthy(MapTrim(Split(s)))

\* user.skills_offered?.join(', ') || ''
RECURSIVE Join(_)
Join(list) ==
  IF list = <<>> THEN <<>>
  ELSE IF Len(list) = 1 THEN list[1]
  ELSE list[1] \o <<",", " ">> \o Join(Tail(list))

(***************************************************************************)
(* The swap-request card: which buttons it renders.                        *)
(***************************************************************************)
\* a card that shows Mark as Completed in the incoming list only
OfferedCompleteIncomingOnly(type, status) ==
  (IF type = "incoming" /\ status = "pending" THEN {"accept", "reject"} ELSE {})
  \cup (IF type = "outgoing" /\ status = "pending" THEN {"cancel"} ELSE {})
  \cup (IF type = "incoming" /\ status = "accepted" THEN {"complete"} ELSE {})

\* a card that shows Accept and Reject whatever the status
OfferedIgnoringStatus(type, status) ==
  (IF type = "incoming" THEN {"accept", "reject"} ELSE {})
  \cup (IF type = "outgoing" /\ status = "pending" THEN {"cancel"} ELSE {})
  \cup (IF status = "accepted" THEN {"complete"} ELSE {})

\* type === 'incoming' && request.status === 'pending': Accept and Reject;
\* type === 'outgoing' && request.status === 'pending': Cancel Request;
\* request.status === 'accepted': Mark as Completed
Offered(type, status) ==
  (IF type = "incoming" /\ status = "pending" THEN {"accept", "reject"} ELSE {})
  \cup (IF type = "outgoing" /\ status = "pending" THEN {"cancel"} ELSE {})
  \cup (IF status = "accepted" THEN {"complete"} ELSE {})

\* the status an update button passes to updateSwapRequest
StatusOf(action) ==
  CASE action = "accept" -> "accepted"
    [] action = "reject" -> "rejected"
    [] action = "complete" -> "completed"
    [] OTHER -> "cancelled"


(***************************************************************************)
(* State.                                                                  *)
(***************************************************************************)
VARIABLES
  cl,        \* per browser: the component state and localStorage
  net,       \* HTTP calls in flight, in the order they were issued
  profiles,  \* backend: the stored skills_offered list of each user
  swaps,     \* backend: the swap-request records, by id
  directory, \* backend: the user list GET /users returns
  ev         \* the handler step that ran last, and the alert() it raised

vars == <<cl, net, profiles, swaps, directory, ev>>

\* setUser(null): no authenticated user
NoUser == [id |-> Null, skills_offered |-> <<>>]

\* the fields a request body may carry, and the fields of a response body
NoArg ==
  [u |-> Null, skills_offered |-> <<>>, id |-> 0, status |-> Null,
   target_user_id |-> Null, requested_skill |-> Null, offered_skill |-> Null,
   term |-> <<>>, file |-> Null]

NoData == [access_token |-> Null, user |-> NoUser, users |-> <<>>, requests |-> <<>>]

\* search terms typed into the directory's search box
SearchTerms == {<<>>, <<" ">>, <<"a">>}

\* useState initial values of AuthScreen, LoginForm and RegisterForm
AuthScreenInitial(s) ==
  [s EXCEPT !.isLogin = TRUE, !.loginLoading = FALSE,
            !.registerLoading = FALSE, !.regSkills = <<>>]

\* useState initial values of Dashboard and ProfileModal
DashboardInitial(s) ==
  [s EXCEPT !.activeTab = "browse", !.users = <<>>, !.myRequests = <<>>,
            !.incomingRequests = <<>>, !.searchTerm = <<>>,
            !.loading = FALSE, !.showProfileModal = FALSE,
            !.formData = <<>>, !.selectedFile = Null,
            !.uploading = FALSE, !.saving = FALSE,
            !.asked = <<"fetchUsers", <<>>>>]

\* a browser at process start: useState(null), useState(localStorage.getItem('token'))
Fresh(d) ==
  DashboardInitial(AuthScreenInitial(
    [token |-> d, user |-> NoUser, durable |-> d,
     isLogin |-> TRUE, loginLoading |-> FALSE, registerLoading |-> FALSE,
     regSkills |-> <<>>,
     activeTab |-> "browse", users |-> <<>>, myRequests |-> <<>>,
     incomingRequests |-> <<>>, searchTerm |-> <<>>, loading |-> FALSE,
     showProfileModal |-> FALSE,
     formData |-> <<>>, selectedFile |-> Null, uploading |-> FALSE,
     saving |-> FALSE, asked |-> <<"fetchUsers", <<>>>>]))

\* {user && token ? <Dashboard /> : <AuthScreen />}
Screen(s) == IF s.user # NoUser /\ s.token # Null THEN "dashboard" ELSE "auth"

\* an effect that loads only the first skill: user.skills_offered?.[0] || ''
FormFromUserFirstOnly(u) ==
  IF u.skills_offered = <<>> THEN <<>> ELSE u.skills_offered[1]

\* ProfileModal's effect on [user]: skills_offered: user.skills_offered?.join(', ') || ''
FormFromUser(u) == Join(u.skills_offered)

\* a call handed to axios: the Authorization header it carries, its payload,
\* and what the suspended handler captured (the active tab, the token of
\* the fetchUser it will call, the handler that called fetchUser)
Call(c, op, hdr, arg) ==
  [c |-> c, op |-> op, hdr |-> hdr, arg |-> arg, resp |-> "none",
   data |-> NoData, tab |-> Null, ktok |-> Null, from |-> Null, live |-> TRUE]

\* fetchUser: axios.get(`${API}/auth/me`, { headers: { Authorization: `Bearer ${token}` } })
FetchUserCall(c, tok, from) ==
  [Call(c, "fetchUser", tok, NoArg) EXCEPT !.from = from]

\* the component whose state a continuation sets
Comp(m) ==
  CASE m.op = "login" -> "LoginForm"
    [] m.op = "register" -> "RegisterForm"
    [] m.op = "fetchUser" /\ m.from = "effect" -> "AuthProvider"
    [] m.op \in {"fetchUser", "uploadPhoto", "putProfile"} -> "ProfileModal"
    [] OTHER -> "Dashboard"

\* the continuations of unmounted components: their setState calls do nothing
Unmount(c, comps, msgs) ==
  [i \in 1..Len(msgs) |->
     IF msgs[i].c = c /\ Comp(msgs[i]) \in comps
     THEN [msgs[i] EXCEPT !.live = FALSE] ELSE msgs[i]]

Remove(msgs, i) == SubSeq(msgs, 1, i - 1) \o SubSeq(msgs, i + 1, Len(msgs))

InFlight(c, msgs) == Cardinality({i \in 1..Len(msgs) : msgs[i].c = c})

\* a handler step: the handler, how it ended ("sent", "noop", "ok", "fail"),
\* what it returned to its caller and the alert() it raised
Event(c, op, phase) ==
  [c |-> c, op |-> op, phase |-> phase, ret |-> "undefined", alert |-> Null]

Alert(e, text) == [e EXCEPT !.alert = text]

(***************************************************************************)
(* The render and the effects that follow a handler step of browser c.     *)
(* s is c's state after the handler's setState calls, userSet says that    *)
(* setUser was called with a fresh object, msgs are the calls in flight    *)
(* after the handler's own calls.                                          *)
(***************************************************************************)
Commit(c, s, userSet, msgs, e) ==
  LET was == Screen(cl[c])
      now == Screen(s)
      mount == was = "auth" /\ now = "dashboard"
      unmount == was = "dashboard" /\ now = "auth"
      \* App swaps AuthScreen and Dashboard; ProfileModal re-reads the user
      s1 == IF mount
              THEN [DashboardInitial(AuthScreenInitial(s)) EXCEPT
                      !.loading = TRUE, !.formData = FormFromUser(s.user)]
            ELSE IF unmount THEN DashboardInitial(AuthScreenInitial(s))
            ELSE IF now = "dashboard" /\ userSet
              THEN [s EXCEPT !.formData = FormFromUser(s.user)]
            ELSE s
      m1 == IF mount THEN Unmount(c, {"LoginForm", "RegisterForm"}, msgs)
            ELSE IF unmount THEN Unmount(c, {"Dashboard", "ProfileModal"}, msgs)
            ELSE msgs
      \* Dashboard's effect on [activeTab] at mount: fetchUsers()
      m2 == IF mount THEN Append(m1, Call(c, "fetchUsers", s.durable, NoArg))
            ELSE m1
      \* AuthProvider's effect on [token]: if (token) fetchUser()
      m3 == IF s.token # cl[c].token /\ s.token # Null
            THEN Append(m2, FetchUserCall(c, s.token, "effect"))
            ELSE m2
  IN /\ InFlight(c, m3) <= MaxInFlight
     /\ cl' = [cl EXCEPT ![c] = s1]
     /\ net' = m3
     /\ ev' = e


(***************************************************************************)
(* AuthProvider.                                                           *)
(***************************************************************************)
\* a logout that forgets localStorage.removeItem('token')
logoutKeepsDurable(s) == [s EXCEPT !.token = Null, !.user = NoUser]

\* logout: setToken(null); setUser(null); localStorage.removeItem('token')
logout(s) == [s EXCEPT !.token = Null, !.user = NoUser, !.durable = Null]

\* a login that forgets localStorage.setItem('token', access_token)
loginOkNoPersist(s, access_token) == [s EXCEPT !.token = access_token]

\* login, try branch: setToken(access_token); localStorage.setItem('token', access_token)
loginOk(s, access_token) ==
  [s EXCEPT !.token = access_token, !.durable = access_token]

\* a catch branch that clears the session as fetchUser's does
loginFailedClears(s) == [s EXCEPT !.token = Null, !.user = NoUser, !.durable = Null]

\* login, catch branch: console.error(...); return false
loginFailed(s) == s

\* a register that forgets localStorage.setItem('token', access_token)
registerOkNoPersist(s, access_token) == [s EXCEPT !.token = access_token]

\* register, try branch: setToken(access_token); localStorage.setItem('token', access_token)
registerOk(s, access_token) ==
  [s EXCEPT !.token = access_token, !.durable = access_token]

\* register, catch branch: console.error(...); return false
registerFailed(s) == s

\* fetchUser, try branch: setUser(response.data)
fetchUserOk(s, data) == [s EXCEPT !.user = data]

\* a catch branch that only logs the error
fetchUserFailedSilent(s) == s

\* fetchUser, catch branch: console.error(...); logout()
fetchUserFailed(s) == logout(s)

\* the Logout button of the dashboard header: onClick={logout}
Logout(c) ==
  /\ Screen(cl[c]) = "dashboard"
  /\ Commit(c, logout(cl[c]), FALSE, net, Event(c, "logout", "ok"))
  /\ UNCHANGED <<profiles, swaps, directory>>

(***************************************************************************)
(* AuthScreen, LoginForm, RegisterForm.                                    *)
(***************************************************************************)
\* LoginForm.handleSubmit up to the await: setLoading(true); login(email, password)
LoginSubmit(c, cred) ==
  /\ Screen(cl[c]) = "auth"
  /\ cl[c].isLogin
  /\ ~cl[c].loginLoading
  /\ Commit(c, [cl[c] EXCEPT !.loginLoading = TRUE], FALSE,
            Append(net, Call(c, "login", Null, [NoArg EXCEPT !.u = cred])),
            Event(c, "login", "sent"))
  /\ UNCHANGED <<profiles, swaps, directory>>

\* login resumes after axios.post, then LoginForm.handleSubmit after await login()
LoginThen(i) ==
  LET m == net[i]
      c == m.c
      s0 == IF m.resp = "ok" THEN loginOk(cl[c], m.data.access_token)
            ELSE loginFailed(cl[c])
      \* setLoading(false)
      s == IF m.live THEN [s0 EXCEPT !.loginLoading = FALSE] ELSE s0
      e == IF m.resp = "ok"
           THEN [Event(c, "login", "ok") EXCEPT !.ret = "true"]
           ELSE Alert([Event(c, "login", "fail") EXCEPT !.ret = "false"],
                      "Login failed. Please check your credentials.")
  IN /\ m.op = "login"
     /\ m.resp # "none"
     /\ Commit(c, s, FALSE, Remove(net, i), e)
     /\ UNCHANGED <<profiles, swaps, directory>>

\* RegisterForm.handleChange on the skills_offered input
RegisterChange(c, text) ==
  /\ Screen(cl[c]) = "auth"
  /\ ~cl[c].isLogin
  /\ text # cl[c].regSkills
  /\ Commit(c, [cl[c] EXCEPT !.regSkills = text], FALSE, net,
            Event(c, "RegisterForm.handleChange", "ok"))
  /\ UNCHANGED <<profiles, swaps, directory>>

\* RegisterForm.handleSubmit up to the await: setLoading(true); register(userData)
RegisterSubmit(c, u) ==
  /\ Screen(cl[c]) = "auth"
  /\ ~cl[c].isLogin
  /\ ~cl[c].registerLoading
  /\ Commit(c, [cl[c] EXCEPT !.registerLoading = TRUE], FALSE,
            Append(net, Call(c, "register", Null,
                             [NoArg EXCEPT !.u = u,
                                !.skills_offered = ParseSkills(cl[c].regSkills)])),
            Event(c, "register", "sent"))
  /\ UNCHANGED <<profiles, swaps, directory>>

\* register resumes after axios.post, then RegisterForm.handleSubmit
RegisterThen(i) ==
  LET m == net[i]
      c == m.c
      s0 == IF m.resp = "ok" THEN registerOk(cl[c], m.data.access_token)
            ELSE registerFailed(cl[c])
      s == IF m.live THEN [s0 EXCEPT !.registerLoading = FALSE] ELSE s0
      e == IF m.resp = "ok"
           THEN [Event(c, "register", "ok") EXCEPT !.ret = "true"]
           ELSE Alert([Event(c, "register", "fail") EXCEPT !.ret = "false"],
                      "Registration failed. Please try again.")
  IN /\ m.op = "register"
     /\ m.resp # "none"
     /\ Commit(c, s, FALSE, Remove(net, i), e)
     /\ UNCHANGED <<profiles, swaps, directory>>

\* onSwitch: setIsLogin(!isLogin); the form that was shown unmounts
SwitchForm(c) ==
  /\ Screen(cl[c]) = "auth"
  /\ Commit(c,
            IF cl[c].isLogin
            THEN [cl[c] EXCEPT !.isLogin = FALSE, !.loginLoading = FALSE]
            ELSE [cl[c] EXCEPT !.isLogin = TRUE, !.registerLoading = FALSE,
                               !.regSkills = <<>>],
            FALSE,
            Unmount(c, IF cl[c].isLogin THEN {"LoginForm"} ELSE {"RegisterForm"}, net),
            Event(c, "onSwitch", "ok"))
  /\ UNCHANGED <<profiles, swaps, directory>>

\* fetchUser resumes after axios.get; when a ProfileModal handler awaited it,
\* that handler runs on to its end
FetchUserThen(i) ==
  LET m == net[i]
      c == m.c
      ok == m.resp = "ok"
      s0 == IF ok THEN fetchUserOk(cl[c], m.data.user) ELSE fetchUserFailed(cl[c])
      s == IF ~m.live THEN s0
           ELSE IF m.from = "upload"
             \* setSelectedFile(null); ...; setUploading(false)
             THEN [s0 EXCEPT !.selectedFile = Null, !.uploading = FALSE]
           ELSE IF m.from = "save"
             \* onClose(); setSaving(false)
             THEN [s0 EXCEPT !.showProfileModal = FALSE, !.saving = FALSE]
           ELSE s0
      e0 == Event(c, "fetchUser", IF ok THEN "ok" ELSE "fail")
      e == IF m.from = "upload" THEN Alert(e0, "Profile photo updated successfully!")
           ELSE IF m.from = "save" THEN Alert(e0, "Profile updated successfully!")
           ELSE e0
  IN /\ m.op = "fetchUser"
     /\ m.resp # "none"
     /\ Commit(c, s, ok, Remove(net, i), e)
     /\ UNCHANGED <<profiles, swaps, directory>>


(***************************************************************************)
(* Dashboard.                                                              *)
(***************************************************************************)
\* an effect whose incoming branch calls fetchMyRequests()
FetchOfCrossed(tab) ==
  CASE tab = "browse" -> "fetchUsers"
    [] OTHER -> "fetchMyRequests"

\* the useEffect on [activeTab]: which fetch a tab starts
FetchOf(tab) ==
  CASE tab = "browse" -> "fetchUsers"
    [] tab = "my-requests" -> "fetchMyRequests"
    [] OTHER -> "fetchIncomingRequests"

ListOps == {"fetchUsers", "searchBySkill", "fetchMyRequests", "fetchIncomingRequests"}

\* the two fetches that end in setUsers
UsersOps == {"fetchUsers", "searchBySkill"}

\* history: the users request the dashboard has issued last, by function
\* and term; NoneAsked once that request is known to have failed
NoneAsked == <<Null, <<>>>>

Asked(s, op, term) ==
  IF op \in UsersOps THEN [s EXCEPT !.asked = <<op, term>>] ELSE s

AskedFailed(s, op, term) ==
  IF op \in UsersOps /\ s.asked = <<op, term>> THEN [s EXCEPT !.asked = NoneAsked] ELSE s

\* a list fetch up to its await: setLoading(true); axios.get(..., authHeaders)
StartFetch(c, s, op, hdr, term, live, msgs) ==
  [state |-> IF live THEN Asked([s EXCEPT !.loading = TRUE], op, term) ELSE s,
   msgs |-> Append(msgs, [Call(c, op, hdr, [NoArg EXCEPT !.term = term])
                            EXCEPT !.live = live])]

\* the tab buttons: onClick={() => setActiveTab(tab)}, then the effect
SetActiveTab(c, tab) ==
  LET f == StartFetch(c, [cl[c] EXCEPT !.activeTab = tab], FetchOf(tab),
                      cl[c].durable, <<>>, TRUE, net)
  IN /\ Screen(cl[c]) = "dashboard"
     /\ tab # cl[c].activeTab
     /\ Commit(c, f.state, FALSE, f.msgs, Event(c, "setActiveTab", "sent"))
     /\ UNCHANGED <<profiles, swaps, directory>>

\* the Show All button: onClick={fetchUsers}
ShowAll(c) ==
  LET f == StartFetch(c, cl[c], "fetchUsers", cl[c].durable, <<>>, TRUE, net)
  IN /\ Screen(cl[c]) = "dashboard"
     /\ cl[c].activeTab = "browse"
     /\ Commit(c, f.state, FALSE, f.msgs, Event(c, "fetchUsers", "sent"))
     /\ UNCHANGED <<profiles, swaps, directory>>

\* the search box: onChange={(e) => setSearchTerm(e.target.value)}
SetSearchTerm(c, term) ==
  /\ Screen(cl[c]) = "dashboard"
  /\ cl[c].activeTab = "browse"
  /\ term # cl[c].searchTerm
  /\ Commit(c, [cl[c] EXCEPT !.searchTerm = term], FALSE, net,
            Event(c, "setSearchTerm", "ok"))
  /\ UNCHANGED <<profiles, swaps, directory>>

\* a guard that tests the term without trimming it: if (!searchTerm) return
searchBySkillStartNoTrim(c) ==
  IF cl[c].searchTerm = <<>>
  THEN [state |-> cl[c], msgs |-> net]
  ELSE StartFetch(c, cl[c], "searchBySkill", cl[c].durable, cl[c].searchTerm,
                  TRUE, net)

\* searchBySkill up to its await: if (!searchTerm.trim()) return; setLoading(true); axios.get
searchBySkillStart(c) ==
  IF Trim(cl[c].searchTerm) = <<>>
  THEN [state |-> cl[c], msgs |-> net]
  ELSE StartFetch(c, cl[c], "searchBySkill", cl[c].durable, cl[c].searchTerm,
                  TRUE, net)

\* the Search button: onClick={searchBySkill}
SearchBySkill(c) ==
  LET f == searchBySkillStart(c)
  IN /\ Screen(cl[c]) = "dashboard"
     /\ cl[c].activeTab = "browse"
     /\ Commit(c, f.state, FALSE, f.msgs,
               Event(c, "searchBySkill",
                     IF Trim(cl[c].searchTerm) = <<>> THEN "noop" ELSE "sent"))
     /\ UNCHANGED <<profiles, swaps, directory>>

\* a list fetch whose setLoading(false) sits inside the try block
listFetchDoneKeepsLoading(s, op, ok, data) ==
  IF ~ok THEN s
  ELSE IF op \in {"fetchUsers", "searchBySkill"}
    THEN [s EXCEPT !.users = data.users, !.loading = FALSE]
  ELSE IF op = "fetchMyRequests"
    THEN [s EXCEPT !.myRequests = data.requests, !.loading = FALSE]
  ELSE [s EXCEPT !.incomingRequests = data.requests, !.loading = FALSE]

\* a fetchIncomingRequests that stores its result with setMyRequests
listFetchDoneCrossed(s, op, ok, data) ==
  LET s0 == IF ~ok THEN s
            ELSE IF op \in {"fetchUsers", "searchBySkill"}
              THEN [s EXCEPT !.users = data.users]
            ELSE [s EXCEPT !.myRequests = data.requests]
  IN [s0 EXCEPT !.loading = FALSE]

\* try { setX(response.data) } catch { console.error(...) }; setLoading(false)
listFetchDone(s, op, ok, data) ==
  LET s0 == IF ~ok THEN s
            ELSE IF op \in {"fetchUsers", "searchBySkill"}
              THEN [s EXCEPT !.users = data.users]
            ELSE IF op = "fetchMyRequests"
              THEN [s EXCEPT !.myRequests = data.requests]
            ELSE [s EXCEPT !.incomingRequests = data.requests]
  IN [s0 EXCEPT !.loading = FALSE]

\* fetchUsers, searchBySkill, fetchMyRequests or fetchIncomingRequests resumes
ListFetchThen(i) ==
  LET m == net[i]
      c == m.c
      ok == m.resp = "ok"
  IN /\ m.op \in ListOps
     /\ m.resp # "none"
     /\ Commit(c, IF ~m.live THEN cl[c]
                  ELSE IF ok THEN listFetchDone(cl[c], m.op, ok, m.data)
                  ELSE AskedFailed(listFetchDone(cl[c], m.op, ok, m.data),
                                   m.op, m.arg.term),
               FALSE, Remove(net, i), Event(c, m.op, IF ok THEN "ok" ELSE "fail"))
     /\ UNCHANGED <<profiles, swaps, directory>>

\* the directory grid without the filter
RenderedUserCardsUnfiltered(s) ==
  IF Screen(s) = "dashboard" /\ s.activeTab = "browse" /\ ~s.loading
  THEN {s.users[i] : i \in 1..Len(s.users)}
  ELSE {}

\* the directory grid: users.filter(u => u.id !== user?.id), shown unless loading
RenderedUserCards(s) ==
  IF Screen(s) = "dashboard" /\ s.activeTab = "browse" /\ ~s.loading
  THEN {s.users[i] : i \in {j \in 1..Len(s.users) : s.users[j] # s.user.id}}
  ELSE {}

\* a test for dismissed prompts only: if (requestedSkill !== null && offeredSkill !== null)
PromptsFilledNotNull(requestedSkill, offeredSkill) ==
  /\ requestedSkill # Null
  /\ offeredSkill # Null

\* if (requestedSkill && offeredSkill): null and '' are falsy
PromptsFilled(requestedSkill, offeredSkill) ==
  /\ requestedSkill \notin {Null, ""}
  /\ offeredSkill \notin {Null, ""}

\* the Request Skill Swap button of a user card: the two prompts, then
\* createSwapRequest(targetUser.id, requestedSkill, offeredSkill) up to its await
RequestSkillSwap(c, targetUser, requestedSkill, offeredSkill) ==
  /\ targetUser \in RenderedUserCards(cl[c])
  /\ Commit(c, cl[c], FALSE,
            IF PromptsFilled(requestedSkill, offeredSkill)
            THEN Append(net, Call(c, "createSwapRequest", cl[c].durable,
                                  [NoArg EXCEPT !.target_user_id = targetUser,
                                                !.requested_skill = requestedSkill,
                                                !.offered_skill = offeredSkill]))
            ELSE net,
            Event(c, "createSwapRequest",
                  IF PromptsFilled(requestedSkill, offeredSkill) THEN "sent" ELSE "noop"))
  /\ UNCHANGED <<profiles, swaps, directory>>

\* a createSwapRequest whose catch branch posts the request again
CreateThenRetries(i) ==
  LET m == net[i]
      c == m.c
  IN /\ m.op = "createSwapRequest"
     /\ m.resp # "none"
     /\ IF m.resp = "ok"
        THEN Commit(c, cl[c], FALSE, Remove(net, i),
                    Alert(Event(c, "createSwapRequest", "ok"),
                          "Swap request sent successfully!"))
        ELSE Commit(c, cl[c], FALSE,
                    Append(Remove(net, i), Call(c, "createSwapRequest", m.hdr, m.arg)),
                    Event(c, "createSwapRequest", "fail"))
     /\ UNCHANGED <<profiles, swaps, directory>>

\* createSwapRequest resumes: alert in both branches, no state is set
CreateThen(i) ==
  LET m == net[i]
      c == m.c
  IN /\ m.op = "createSwapRequest"
     /\ m.resp # "none"
     /\ Commit(c, cl[c], FALSE, Remove(net, i),
               IF m.resp = "ok"
               THEN Alert(Event(c, "createSwapRequest", "ok"),
                          "Swap request sent successfully!")
               ELSE Alert(Event(c, "createSwapRequest", "fail"),
                          "Failed to send swap request"))
     /\ UNCHANGED <<profiles, swaps, directory>>

\* the request cards of the active tab, with the type prop each is given;
\* no card is shown while loading
RenderedRequestCards(s) ==
  IF Screen(s) # "dashboard" \/ s.loading THEN {}
  ELSE IF s.activeTab = "my-requests"
    THEN {[type |-> "outgoing", request |-> s.myRequests[i]] :
            i \in 1..Len(s.myRequests)}
  ELSE IF s.activeTab = "incoming"
    THEN {[type |-> "incoming", request |-> s.incomingRequests[i]] :
            i \in 1..Len(s.incomingRequests)}
  ELSE {}

\* a button of a swap-request card: updateSwapRequest(request.id, status) or
\* deleteSwapRequest(request.id), up to the await
CardClick(c, card, action) ==
  /\ card \in RenderedRequestCards(cl[c])
  /\ action \in Offered(card.type, card.request.status)
  /\ Commit(c, cl[c], FALSE,
            Append(net,
              IF action = "cancel"
              THEN Call(c, "deleteSwapRequest", cl[c].durable,
                        [NoArg EXCEPT !.id = card.request.id])
              ELSE [Call(c, "updateSwapRequest", cl[c].durable,
                         [NoArg EXCEPT !.id = card.request.id,
                                       !.status = StatusOf(action)])
                      EXCEPT !.tab = cl[c].activeTab]),
            Event(c, IF action = "cancel" THEN "deleteSwapRequest"
                     ELSE "updateSwapRequest", "sent"))
  /\ UNCHANGED <<profiles, swaps, directory>>

\* the list updateSwapRequest re-fetches: if (activeTab === 'incoming')
\* fetchIncomingRequests(); else fetchMyRequests(), with the activeTab captured
RefetchAfterUpdate(tab) ==
  IF tab = "incoming" THEN "fetchIncomingRequests" ELSE "fetchMyRequests"

\* updateSwapRequest resumes after axios.put
UpdateThen(i) ==
  LET m == net[i]
      c == m.c
      f == StartFetch(c, cl[c], RefetchAfterUpdate(m.tab), m.hdr, <<>>, m.live,
                      Remove(net, i))
  IN /\ m.op = "updateSwapRequest"
     /\ m.resp # "none"
     /\ IF m.resp = "ok"
        THEN Commit(c, f.state, FALSE, f.msgs, Event(c, "updateSwapRequest", "ok"))
        ELSE Commit(c, cl[c], FALSE, Remove(net, i),
                    Event(c, "updateSwapRequest", "fail"))
     /\ UNCHANGED <<profiles, swaps, directory>>

\* deleteSwapRequest resumes after axios.delete: fetchMyRequests()
DeleteThen(i) ==
  LET m == net[i]
      c == m.c
      f == StartFetch(c, cl[c], "fetchMyRequests", m.hdr, <<>>, m.live,
                      Remove(net, i))
  IN /\ m.op = "deleteSwapRequest"
     /\ m.resp # "none"
     /\ IF m.resp = "ok"
        THEN Commit(c, f.state, FALSE, f.msgs, Event(c, "deleteSwapRequest", "ok"))
        ELSE Commit(c, cl[c], FALSE, Remove(net, i),
                    Event(c, "deleteSwapRequest", "fail"))
     /\ UNCHANGED <<profiles, swaps, directory>>


(***************************************************************************)
(* ProfileModal.                                                           *)
(***************************************************************************)
\* the Edit Profile button and the modal's close buttons
SetShowProfileModal(c, open) ==
  /\ Screen(cl[c]) = "dashboard"
  /\ cl[c].showProfileModal # open
  /\ Commit(c, [cl[c] EXCEPT !.showProfileModal = open], FALSE, net,
            Event(c, "setShowProfileModal", "ok"))
  /\ UNCHANGED <<profiles, swaps, directory>>

\* ProfileModal.handleChange on the skills_offered input
ProfileChange(c, text) ==
  /\ Screen(cl[c]) = "dashboard"
  /\ cl[c].showProfileModal
  /\ text # cl[c].formData
  /\ Commit(c, [cl[c] EXCEPT !.formData = text], FALSE, net,
            Event(c, "ProfileModal.handleChange", "ok"))
  /\ UNCHANGED <<profiles, swaps, directory>>

\* file.type.startsWith('image/')
IsImage(type) == type \in {"image/png"}

\* a handleFileChange without the MIME check: if (file) setSelectedFile(file)
handleFileChangeUnchecked(s, file) ==
  IF file # Null THEN [s EXCEPT !.selectedFile = file] ELSE s

\* handleFileChange: if (file) { if (image) setSelectedFile(file) else alert(...) }
handleFileChange(s, file) ==
  IF file # Null /\ IsImage(file) THEN [s EXCEPT !.selectedFile = file] ELSE s

FileChange(c, file) ==
  /\ Screen(cl[c]) = "dashboard"
  /\ cl[c].showProfileModal
  /\ Commit(c, handleFileChange(cl[c], file), FALSE, net,
            IF file # Null /\ ~IsImage(file)
            THEN Alert(Event(c, "handleFileChange", "noop"),
                       "Please select an image file.")
            ELSE Event(c, "handleFileChange", IF file = Null THEN "noop" ELSE "ok"))
  /\ UNCHANGED <<profiles, swaps, directory>>

\* handlePhotoUpload up to its first await: if (!selectedFile) return;
\* setUploading(true); axios.post(upload-photo, formData, authHeaders)
PhotoUpload(c) ==
  /\ Screen(cl[c]) = "dashboard"
  /\ cl[c].showProfileModal
  /\ ~cl[c].uploading
  /\ IF cl[c].selectedFile = Null
     THEN Commit(c, cl[c], FALSE, net, Event(c, "handlePhotoUpload", "noop"))
     ELSE Commit(c, [cl[c] EXCEPT !.uploading = TRUE], FALSE,
                 Append(net, [Call(c, "uploadPhoto", cl[c].durable,
                                   [NoArg EXCEPT !.file = cl[c].selectedFile])
                                EXCEPT !.ktok = cl[c].token]),
                 Event(c, "handlePhotoUpload", "sent"))
  /\ UNCHANGED <<profiles, swaps, directory>>

\* handlePhotoUpload resumes after axios.post: await fetchUser(), or the catch
UploadThen(i) ==
  LET m == net[i]
      c == m.c
  IN /\ m.op = "uploadPhoto"
     /\ m.resp # "none"
     /\ IF m.resp = "ok"
        THEN Commit(c, cl[c], FALSE,
                    Append(Remove(net, i),
                           [FetchUserCall(c, m.ktok, "upload") EXCEPT !.live = m.live]),
                    Event(c, "handlePhotoUpload", "ok"))
        ELSE Commit(c, IF m.live THEN [cl[c] EXCEPT !.uploading = FALSE] ELSE cl[c],
                    FALSE, Remove(net, i),
                    Alert(Event(c, "handlePhotoUpload", "fail"),
                          "Failed to upload photo. Please try again."))
     /\ UNCHANGED <<profiles, swaps, directory>>

\* ProfileModal.handleSubmit up to its first await: setSaving(true);
\* axios.put(users/me, updateData, authHeaders)
ProfileSave(c) ==
  /\ Screen(cl[c]) = "dashboard"
  /\ cl[c].showProfileModal
  /\ ~cl[c].saving
  /\ Commit(c, [cl[c] EXCEPT !.saving = TRUE], FALSE,
            Append(net, [Call(c, "putProfile", cl[c].durable,
                              [NoArg EXCEPT
                                 !.skills_offered = ParseSkills(cl[c].formData)])
                           EXCEPT !.ktok = cl[c].token]),
            Event(c, "ProfileModal.handleSubmit", "sent"))
  /\ UNCHANGED <<profiles, swaps, directory>>

\* ProfileModal.handleSubmit resumes after axios.put: await fetchUser(), or the catch
SaveThen(i) ==
  LET m == net[i]
      c == m.c
  IN /\ m.op = "putProfile"
     /\ m.resp # "none"
     /\ IF m.resp = "ok"
        THEN Commit(c, cl[c], FALSE,
                    Append(Remove(net, i),
                           [FetchUserCall(c, m.ktok, "save") EXCEPT !.live = m.live]),
                    Event(c, "ProfileModal.handleSubmit", "ok"))
        ELSE Commit(c, IF m.live THEN [cl[c] EXCEPT !.saving = FALSE] ELSE cl[c],
                    FALSE, Remove(net, i),
                    Alert(Event(c, "ProfileModal.handleSubmit", "fail"),
                          "Failed to update profile. Please try again."))
     /\ UNCHANGED <<profiles, swaps, directory>>

(***************************************************************************)
(* The backend, as the specification describes its REST surface.           *)
(***************************************************************************)
ReqIds == 1..MaxReq

NoSwap ==
  [id |-> 0, requester_id |-> Null, target_user_id |-> Null,
   requested_skill |-> Null, offered_skill |-> Null, status |-> Null]

\* the lifecycle table: who may move a request from which status to which
LegalTransition(r, actor, to) ==
  \/ /\ r.status = "pending"
     /\ to \in {"accepted", "rejected"}
     /\ actor = r.target_user_id
  \/ /\ r.status = "pending"
     /\ to = "cancelled"
     /\ actor = r.requester_id
  \/ /\ r.status = "accepted"
     /\ to = "completed"
     /\ actor \in {r.requester_id, r.target_user_id}

\* the records a list call returns: those not removed, in id order
RECURSIVE ListFrom(_, _, _)
ListFrom(id, u, field) ==
  IF id > MaxReq THEN <<>>
  ELSE (IF swaps[id] # NoSwap /\ swaps[id][field] = u
          /\ swaps[id].status # "removed"
        THEN <<swaps[id]>> ELSE <<>>) \o ListFrom(id + 1, u, field)

\* what a skill search may return: some of the directory, in its order
SubLists(l) == {m \in UserLists : \A u \in Users :
                  (\E i \in 1..Len(m) : m[i] = u) => (\E j \in 1..Len(l) : l[j] = u)}

\* whether the backend can answer call m with success, and the body it sends
CanServe(m) ==
  CASE m.op = "login" -> m.arg.u \in Users
    [] m.op = "register" -> m.arg.u \in Users
    [] m.op = "createSwapRequest" ->
         m.hdr \in Token /\ \E id \in ReqIds : swaps[id] = NoSwap
    [] m.op = "updateSwapRequest" ->
         /\ m.hdr \in Token
         /\ m.arg.id \in ReqIds
         /\ LegalTransition(swaps[m.arg.id], UserOf(m.hdr), m.arg.status)
    [] m.op = "deleteSwapRequest" ->
         /\ m.hdr \in Token
         /\ m.arg.id \in ReqIds
         /\ LegalTransition(swaps[m.arg.id], UserOf(m.hdr), "cancelled")
    [] OTHER -> m.hdr \in Token

Bodies(m) ==
  CASE m.op \in {"login", "register"} ->
         {[NoData EXCEPT !.access_token = TokenOf(m.arg.u)]}
    [] m.op = "fetchUser" ->
         {[NoData EXCEPT !.user = [id |-> UserOf(m.hdr),
                                   skills_offered |-> profiles[UserOf(m.hdr)]]]}
    [] m.op \in {"fetchUsers", "searchBySkill"} ->
         {[NoData EXCEPT !.users = l] :
            l \in IF m.op = "fetchUsers" THEN {directory} ELSE SubLists(directory)}
    [] m.op = "fetchMyRequests" ->
         {[NoData EXCEPT !.requests = ListFrom(1, UserOf(m.hdr), "requester_id")]}
    [] m.op = "fetchIncomingRequests" ->
         {[NoData EXCEPT !.requests = ListFrom(1, UserOf(m.hdr), "target_user_id")]}
    [] OTHER -> {NoData}

FreeId == CHOOSE id \in ReqIds : swaps[id] = NoSwap /\ \A j \in ReqIds : swaps[j] = NoSwap => id <= j

\* the backend handles call i and answers with success
ServerOk(i) ==
  LET m == net[i]
  IN /\ m.resp = "none"
     /\ CanServe(m)
     /\ \E body \in Bodies(m) :
          net' = [net EXCEPT ![i] = [m EXCEPT !.resp = "ok", !.data = body]]
     /\ profiles' = IF m.op \in {"register", "putProfile"}
                    THEN [profiles EXCEPT
                            ![IF m.op = "register" THEN m.arg.u ELSE UserOf(m.hdr)] =
                              m.arg.skills_offered]
                    ELSE profiles
     /\ swaps' = CASE m.op = "createSwapRequest" ->
                        [swaps EXCEPT ![FreeId] =
                           [id |-> FreeId, requester_id |-> UserOf(m.hdr),
                            target_user_id |-> m.arg.target_user_id,
                            requested_skill |-> m.arg.requested_skill,
                            offered_skill |-> m.arg.offered_skill,
                            status |-> "pending"]]
                   [] m.op = "updateSwapRequest" ->
                        [swaps EXCEPT ![m.arg.id].status = m.arg.status]
                   [] m.op = "deleteSwapRequest" ->
                        [swaps EXCEPT ![m.arg.id].status = "removed"]
                   [] OTHER -> swaps
     /\ ev' = Event(m.c, m.op, "served")
     /\ UNCHANGED <<cl, directory>>

\* the call fails: the backend rejects it, or the network errors
ServerFail(i) ==
  LET m == net[i]
  IN /\ m.resp = "none"
     /\ net' = [net EXCEPT ![i] = [m EXCEPT !.resp = "fail"]]
     /\ ev' = Event(m.c, m.op, "refused")
     /\ UNCHANGED <<cl, profiles, swaps, directory>>


(***************************************************************************)
(* Specifications.                                                         *)
(***************************************************************************)
\* a response reaches the browser and the suspended handler resumes
Resume(i) ==
  \/ LoginThen(i)
  \/ RegisterThen(i)
  \/ FetchUserThen(i)
  \/ ListFetchThen(i)
  \/ CreateThen(i)
  \/ UpdateThen(i)
  \/ DeleteThen(i)
  \/ UploadThen(i)
  \/ SaveThen(i)

Network ==
  \E i \in 1..Len(net) : ServerOk(i) \/ ServerFail(i) \/ Resume(i)

\* the profiles the backend holds at the start
Profiles0 == [u \in Users |-> IF u = "A" THEN <<<<"a">>, <<"b">>>> ELSE <<>>]

\* an AuthProvider that never validates the stored token
StartCallsNone(c, d) == <<>>

\* AuthProvider's first render and its effect: if (token) fetchUser()
StartCalls(c, d) == IF d = Null THEN <<>> ELSE <<FetchUserCall(c, d, "effect")>>

\* a browser whose user has logged in and whose first fetchUsers has returned
Settled(u, list) ==
  [Fresh(TokenOf(u)) EXCEPT
     !.user = [id |-> u, skills_offered |-> Profiles0[u]],
     !.users = list,
     !.formData = FormFromUser([id |-> u, skills_offered |-> Profiles0[u]])]

\* what the user of browser c may do on the authentication screen
AuthActions(c) ==
  \/ \E cred \in Credentials : LoginSubmit(c, cred)
  \/ \E u \in Users : RegisterSubmit(c, u)
  \/ SwitchForm(c)

\* what the user of browser c may do with the directory
DirectoryActions(c) ==
  \/ ShowAll(c)
  \/ \E term \in SearchTerms : SetSearchTerm(c, term)
  \/ SearchBySkill(c)
  \/ \E u \in Users, rs \in RequestedAnswers, os \in OfferedAnswers :
       RequestSkillSwap(c, u, rs, os)

\* what the user of browser c may do with the request lists
SwapActions(c) ==
  \/ \E tab \in Tabs : SetActiveTab(c, tab)
  \/ \E card \in RenderedRequestCards(cl[c]),
        action \in {"accept", "reject", "cancel", "complete"} :
       CardClick(c, card, action)

\* what the user of browser c may do in the profile editor
ProfileActions(c) ==
  \/ \E open \in BOOLEAN : SetShowProfileModal(c, open)
  \/ \E file \in FileTypes \cup {Null} : FileChange(c, file)
  \/ PhotoUpload(c)
  \/ ProfileSave(c)

\* the request the backend may already hold: B asks A for Guitar
Request0(status) ==
  [id |-> 1, requester_id |-> "B", target_user_id |-> "A",
   requested_skill |-> "Guitar", offered_skill |-> "Spanish", status |-> status]

\* a user who waits for the answer to each call before acting again
Idle(c) == InFlight(c, net) = 0

(* One browser from process start, with a user who logs in as A and waits  *)
(* for the answer to each call before acting again: every handler of the   *)
(* application except typing into a skills input.                          *)
Init ==
  /\ profiles = Profiles0
  /\ ev = Event(Null, "init", "ok")
  /\ directory = <<"A", "B">>
  /\ \E r \in {NoSwap, Request0("pending")} :
       swaps = [id \in ReqIds |-> IF id = 1 THEN r ELSE NoSwap]
  /\ cl = [c \in Client |-> Fresh(Null)]
  /\ net = <<>>

Next ==
  \/ Idle("c1") /\ \E cred \in {"A", "bad"} : LoginSubmit("c1", cred)
  \/ Idle("c1") /\ RegisterSubmit("c1", "A")
  \/ Idle("c1") /\ SwitchForm("c1")
  \/ Idle("c1") /\ Logout("c1")
  \/ Idle("c1") /\ ShowAll("c1")
  \/ \E term \in {<<>>, <<"a">>} : SetSearchTerm("c1", term)
  \/ Idle("c1") /\ SearchBySkill("c1")
  \/ Idle("c1") /\ \E rs \in {Null, "Guitar"} : RequestSkillSwap("c1", "B", rs, "Spanish")
  \/ Idle("c1") /\ SwapActions("c1")
  \/ Idle("c1") /\ ProfileActions("c1")
  \/ Network

Spec == Init /\ [][Next]_vars

(* The session store of one browser from process start: submissions,       *)
(* form switches and logouts in any interleaving with the responses.       *)
InitSession ==
  /\ profiles = Profiles0
  /\ ev = Event(Null, "init", "ok")
  /\ directory = <<"A", "B">>
  /\ swaps = [id \in ReqIds |-> NoSwap]
  /\ \E d \in Token \cup {Null} :
       /\ cl = [c \in Client |-> IF c = "c1" THEN Fresh(d) ELSE Fresh(Null)]
       /\ net = StartCalls("c1", d)

NextSession ==
  \/ AuthActions("c1")
  \/ Logout("c1")
  \/ Network

SpecSession == InitSession /\ [][NextSession]_vars

(* The directory of one logged-in browser, for every list the backend may  *)
(* hold.                                                                   *)
InitDirectory ==
  /\ profiles = Profiles0
  /\ ev = Event(Null, "init", "ok")
  /\ swaps = [id \in ReqIds |-> NoSwap]
  /\ directory \in UserLists
  /\ cl = [c \in Client |-> IF c = "c1" THEN Settled("A", directory) ELSE Fresh(Null)]
  /\ net = <<>>

NextDirectory ==
  \/ DirectoryActions("c1")
  \/ Network

SpecDirectory == InitDirectory /\ [][NextDirectory]_vars

(* Two logged-in browsers, the target A in c1 and the requester B in c2,   *)
(* and the request between them, which the backend may already hold; each  *)
(* user waits for the answer to a call before acting again.                *)
InitSwap ==
  /\ profiles = Profiles0
  /\ ev = Event(Null, "init", "ok")
  /\ directory = <<"A", "B">>
  /\ \E r \in {NoSwap} \cup {Request0(st) : st \in Statuses} :
       swaps = [id \in ReqIds |-> IF id = 1 THEN r ELSE NoSwap]
  /\ cl = [c \in Client |-> Settled(IF c = "c1" THEN "A" ELSE "B", directory)]
  /\ net = <<>>

NextSwap ==
  \/ \E c \in Client : Idle(c) /\ SwapActions(c)
  \/ Idle("c2") /\ RequestSkillSwap("c2", "A", "Guitar", "Spanish")
  \/ Network

SpecSwap == InitSwap /\ [][NextSwap]_vars

(* The same two browsers over a backend that holds no request yet: every   *)
(* request was created by B in c2 during the behaviour.                    *)
InitEndToEnd ==
  /\ profiles = Profiles0
  /\ ev = Event(Null, "init", "ok")
  /\ directory = <<"A", "B">>
  /\ swaps = [id \in ReqIds |-> NoSwap]
  /\ cl = [c \in Client |-> Settled(IF c = "c1" THEN "A" ELSE "B", directory)]
  /\ net = <<>>

SpecEndToEnd == InitEndToEnd /\ [][NextSwap]_vars

(* One logged-in browser whose user changes tabs without waiting for the   *)
(* answers: up to MaxInFlight list fetches are in flight together.         *)
InitTabs ==
  /\ profiles = Profiles0
  /\ ev = Event(Null, "init", "ok")
  /\ directory = <<"A", "B">>
  /\ \E r \in {NoSwap, Request0("pending"), Request0("accepted")} :
       swaps = [id \in ReqIds |-> IF id = 1 THEN r ELSE NoSwap]
  /\ cl = [c \in Client |-> IF c = "c1" THEN Settled("A", directory) ELSE Fresh(Null)]
  /\ net = <<>>

NextTabs ==
  \/ \E tab \in Tabs : SetActiveTab("c1", tab)
  \/ Idle("c1") /\ \E card \in RenderedRequestCards(cl["c1"]) :
                     CardClick("c1", card, "accept")
  \/ Network

SpecTabs == InitTabs /\ [][NextTabs]_vars

(* The two skills inputs, holding any text the user may have typed: a      *)
(* registration, or a profile save.                                        *)
InitSkills ==
  /\ profiles = Profiles0
  /\ ev = Event(Null, "init", "ok")
  /\ directory = <<"A", "B">>
  /\ swaps = [id \in ReqIds |-> NoSwap]
  /\ net = <<>>
  /\ \E text \in SkillStrings :
       \/ cl = [c \in Client |->
                  IF c = "c1"
                  THEN [Fresh(Null) EXCEPT !.isLogin = FALSE, !.regSkills = text]
                  ELSE Fresh(Null)]
       \/ cl = [c \in Client |->
                  IF c = "c1"
                  THEN [Settled("A", directory) EXCEPT
                          !.showProfileModal = TRUE, !.formData = text]
                  ELSE Fresh(Null)]

NextSkills ==
  \/ RegisterSubmit("c1", "B")
  \/ ProfileSave("c1")
  \/ Network

SpecSkills == InitSkills /\ [][NextSkills]_vars

(* One logged-in browser whose user works in the profile editor and on the *)
(* request cards, waiting for each answer before the next call, but types  *)
(* and logs out at any moment, also while a call is in flight.             *)
InitEditor ==
  /\ profiles = Profiles0
  /\ ev = Event(Null, "init", "ok")
  /\ directory = <<"A", "B">>
  /\ \E r \in {NoSwap, Request0("pending")} :
       swaps = [id \in ReqIds |-> IF id = 1 THEN r ELSE NoSwap]
  /\ cl = [c \in Client |-> IF c = "c1" THEN Settled("A", directory) ELSE Fresh(Null)]
  /\ net = <<>>

NextEditor ==
  \/ Idle("c1") /\ SwapActions("c1")
  \/ Idle("c1") /\ ProfileActions("c1")
  \/ ProfileChange("c1", <<"b">>)
  \/ Logout("c1")
  \/ Network

SpecEditor == InitEditor /\ [][NextEditor]_vars

(* The session store of one browser from process start, as in SpecSession, *)
(* with the user cards of the dashboard it brings up.                      *)
NextSessionCards ==
  \/ NextSession
  \/ \E u \in Users : RequestSkillSwap("c1", u, "Guitar", "Spanish")

SpecSessionCards == InitSession /\ [][NextSessionCards]_vars

\* the skill lists the backend may hold for a user: every list this client
\* can have written from a form text, and three written by another client
\* of the API (an entry with a comma, with a leading blank, empty)
StoredLists ==
  {ParseSkills(s) : s \in SkillStrings}
    \cup {<<<<"a", ",", "b">>>>, <<<<" ", "a">>, <<"b">>>>, <<<<>>, <<"a">>>>}

(* The profile editor of one logged-in browser, open on a user whose       *)
(* stored skill list is any of StoredLists: the user saves the form as     *)
(* loaded or after typing, and opens the editor again after each save.     *)
InitRoundTrip ==
  /\ ev = Event(Null, "init", "ok")
  /\ directory = <<"A", "B">>
  /\ swaps = [id \in ReqIds |-> NoSwap]
  /\ net = <<>>
  /\ \E list \in StoredLists :
       /\ profiles = [Profiles0 EXCEPT !["A"] = list]
       /\ cl = [c \in Client |->
                  IF c = "c1"
                  THEN [Settled("A", directory) EXCEPT
                          !.user = [id |-> "A", skills_offered |-> list],
                          !.formData = FormFromUser([id |-> "A", skills_offered |-> list]),
                          !.showProfileModal = TRUE]
                  ELSE Fresh(Null)]

NextRoundTrip ==
  \/ Idle("c1") /\ ProfileSave("c1")
  \/ Idle("c1") /\ SetShowProfileModal("c1", TRUE)
  \/ \E text \in {<<"b">>, <<"b", ",", "a">>} : ProfileChange("c1", text)
  \/ Network

SpecRoundTrip == InitRoundTrip /\ [][NextRoundTrip]_vars


(***************************************************************************)
(* Properties.                                                             *)
(***************************************************************************)
\* the session of a browser: the token in memory, the user, the token in
\* localStorage
Session(s) == <<s.token, s.user, s.durable>>

Cleared(s) == s.token = Null /\ s.user = NoUser /\ s.durable = Null

\* the call a handler step has just issued
LastCall(msgs) == msgs[Len(msgs)]

\* the actions section 4.2 of the specification allows on a card
LifecycleTable(type, status) ==
  CASE status = "pending" /\ type = "incoming" -> {"accept", "reject"}
    [] status = "pending" /\ type = "outgoing" -> {"cancel"}
    [] status = "accepted" -> {"complete"}
    [] OTHER -> {}

\* C1: every swap-request card a browser renders offers exactly the actions
\* of the lifecycle table for the list it is shown in and its status:
\* accept and reject for incoming pending, cancel for outgoing pending,
\* mark complete for accepted in either list, nothing for rejected,
\* completed and cancelled.
C1_CardsOfferTableActions ==
  \A c \in Client : \A card \in RenderedRequestCards(cl[c]) :
    /\ card.request.status \in Statuses
    /\ Offered(card.type, card.request.status)
         = LifecycleTable(card.type, card.request.status)

\* an accepted request shown in the requester's outgoing list once the
\* target has accepted it, and a terminal one shown to the target
C1_Witness ==
  /\ \E card \in RenderedRequestCards(cl["c2"]) :
       card.type = "outgoing" /\ card.request.status = "accepted"
  /\ \E card \in RenderedRequestCards(cl["c1"]) :
       card.type = "incoming" /\ card.request.status = "accepted"

\* the status the lifecycle table moves a request to on a call
TargetStatus(m) ==
  IF m.op = "deleteSwapRequest" THEN "cancelled" ELSE m.arg.status

\* C2 as stated: every PUT or DELETE is a legal transition for the status
\* the backend holds when the call arrives there.
C2_CallsLegalAtServer ==
  [][(ev'.phase \in {"served", "refused"}
        /\ ev'.op \in {"updateSwapRequest", "deleteSwapRequest"})
       => \A i \in 1..Len(net) :
            (net[i].resp = "none" /\ net'[i].resp # "none")
              => LegalTransition(swaps[net[i].arg.id], UserOf(net[i].hdr),
                                 TargetStatus(net[i]))]_vars

\* C2 as amended: every PUT or DELETE a browser sends is a legal transition,
\* by the user logged in there, for the status shown on the card that was
\* clicked, which is the browser's last fetched snapshot of the request.
C2_CallsLegalForSnapshot ==
  [][(ev'.phase = "sent" /\ ev'.op \in {"updateSwapRequest", "deleteSwapRequest"})
       => LET m == LastCall(net')
          IN /\ UserOf(m.hdr) = cl[m.c].user.id
             /\ \E card \in RenderedRequestCards(cl[m.c]) :
                  /\ card.request.id = m.arg.id
                  /\ LegalTransition(card.request, cl[m.c].user.id, TargetStatus(m))]_vars

\* an accept has just been sent from a card that still shows pending while
\* the backend no longer holds the request as pending
C2_Witness ==
  /\ ev.op = "updateSwapRequest"
  /\ ev.phase = "sent"
  /\ LastCall(net).arg.status = "accepted"
  /\ swaps[LastCall(net).arg.id].status # "pending"

\* logout() has just run: the Logout button, or fetchUser's catch branch
LogoutRan(e) == e.op = "logout" \/ (e.op = "fetchUser" /\ e.phase = "fail")

\* C3: right after logout() the token in memory is null, the user is null
\* and localStorage holds no token, whatever the session was before; a
\* logout() on a cleared session leaves it as it is.
C3_LogoutClearsSession ==
  /\ [](LogoutRan(ev) => Cleared(cl[ev.c]))
  /\ [][(LogoutRan(ev') /\ Cleared(cl[ev'.c]))
          => Session(cl'[ev'.c]) = Session(cl[ev'.c])]_vars

\* logout() has run through fetchUser's catch branch while another refresh
\* is still in flight, whose failure will call logout() on a cleared session
C3_Witness ==
  /\ LogoutRan(ev)
  /\ Cleared(cl["c1"])
  /\ \E i \in 1..Len(net) : net[i].op = "fetchUser" /\ net[i].resp = "fail"

\* C4: the step in which a login or a register call fails leaves the token
\* in memory, the token in localStorage and the user as they were and
\* returns false to the form, and so does the step that issued the call.
C4_FailedLoginKeepsSession ==
  [][(ev'.op \in {"login", "register"} /\ ev'.phase \in {"sent", "fail"})
       => /\ Session(cl'[ev'.c]) = Session(cl[ev'.c])
          /\ ev'.phase = "fail" => ev'.ret = "false"]_vars

\* a login has failed in a browser that holds a stored token
C4_Witness ==
  /\ ev.op = "login"
  /\ ev.phase = "fail"
  /\ cl["c1"].durable # Null
  /\ cl["c1"].token = cl["c1"].durable

\* C5: right after a fetchUser call has failed, the token in memory is
\* null, the user is null, localStorage holds no token and the
\* authentication screen is shown.
C5_FailedRefreshLogsOut ==
  (ev.op = "fetchUser" /\ ev.phase = "fail")
    => /\ cl[ev.c].token = Null
       /\ cl[ev.c].user = NoUser
       /\ cl[ev.c].durable = Null
       /\ Screen(cl[ev.c]) = "auth"

\* the refresh that follows a profile save has failed
C5_Witness ==
  /\ ev.op = "fetchUser"
  /\ ev.phase = "fail"
  /\ ev.alert = "Profile updated successfully!"

\* C6: no user card rendered in the directory carries the id of the
\* session's user, for every list the backend has returned.
C6_DirectoryExcludesSelf ==
  \A c \in Client : \A id \in RenderedUserCards(cl[c]) : id # cl[c].user.id

\* the directory is rendered from a list that holds the viewer
C6_Witness ==
  /\ Screen(cl["c1"]) = "dashboard"
  /\ cl["c1"].activeTab = "browse"
  /\ ~cl["c1"].loading
  /\ \E i \in 1..Len(cl["c1"].users) : cl["c1"].users[i] = cl["c1"].user.id
  /\ RenderedUserCards(cl["c1"]) # {}
  /\ ev.op = "searchBySkill"

\* the comma-separated segments of a text, each without its surrounding
\* whitespace, the empty ones dropped, in order: read off character by
\* character (tok is the segment so far, pend the whitespace seen after it)
RECURSIVE Segments(_, _, _, _, _)
Segments(s, i, tok, pend, out) ==
  LET flushed == IF tok = <<>> THEN out ELSE Append(out, tok)
  IN IF i > Len(s) THEN flushed
     ELSE IF s[i] = "," THEN Segments(s, i + 1, <<>>, <<>>, flushed)
     ELSE IF s[i] = " "
       THEN IF tok = <<>> THEN Segments(s, i + 1, tok, pend, out)
            ELSE Segments(s, i + 1, tok, Append(pend, " "), out)
     ELSE Segments(s, i + 1, tok \o pend \o <<s[i]>>, <<>>, out)

TrimmedSegments(s) == Segments(s, 1, <<>>, <<>>, <<>>)

\* C7: the skill list a registration or a profile save transmits is the
\* sequence of the comma-separated segments of the text in the form, each
\* without surrounding whitespace, empty segments dropped, in order.
C7_SkillsTransmittedAsSegments ==
  [][/\ (ev'.op = "register" /\ ev'.phase = "sent")
          => LastCall(net').arg.skills_offered = TrimmedSegments(cl[ev'.c].regSkills)
     /\ (ev'.op = "ProfileModal.handleSubmit" /\ ev'.phase = "sent")
          => LastCall(net').arg.skills_offered = TrimmedSegments(cl[ev'.c].formData)]_vars

\* the registration of "a, b ,b," is in flight with the list [a, b, b]
C7_Witness ==
  /\ cl["c1"].regSkills \in ExampleStrings
  /\ \E i \in 1..Len(net) :
       /\ net[i].op = "register"
       /\ net[i].arg.skills_offered = <<<<"a">>, <<"b">>, <<"b">>>>

\* C8: searchBySkill with an empty or all-whitespace term issues no call
\* and leaves the users list and the loading flag as they were.
C8_EmptySearchIsNoOp ==
  [][(ev'.op = "searchBySkill" /\ ev'.phase \in {"noop", "sent"}
        /\ Trim(cl[ev'.c].searchTerm) = <<>>)
       => /\ net' = net
          /\ cl'[ev'.c].users = cl[ev'.c].users
          /\ cl'[ev'.c].loading = cl[ev'.c].loading]_vars

\* Search was pressed with a term of whitespace over a list that is shown
C8_Witness ==
  /\ ev.op = "searchBySkill"
  /\ ev.phase = "noop"
  /\ cl["c1"].searchTerm = <<" ">>
  /\ cl["c1"].users # <<>>
  /\ net = <<>>

\* the local lists change only by being replaced with the body of a
\* list response
ListsOnlyReplaced ==
  \A c \in Client :
    /\ cl'[c].myRequests # cl[c].myRequests
         => \E i \in 1..Len(net) :
              /\ net[i].c = c /\ net[i].op = "fetchMyRequests" /\ net[i].resp = "ok"
              /\ cl'[c].myRequests = net[i].data.requests
              /\ net' = Remove(net, i)
    /\ cl'[c].incomingRequests # cl[c].incomingRequests
         => \E i \in 1..Len(net) :
              /\ net[i].c = c /\ net[i].op = "fetchIncomingRequests" /\ net[i].resp = "ok"
              /\ cl'[c].incomingRequests = net[i].data.requests
              /\ net' = Remove(net, i)

\* C9: after every successful create, status transition or cancel
\* the browser issues a fetch of a request list, and the lists change only
\* by being replaced with a fetched snapshot.
C9_EveryMutationRefetches ==
  [][/\ (ev'.phase = "ok"
           /\ ev'.op \in {"createSwapRequest", "updateSwapRequest", "deleteSwapRequest"})
          => /\ net' # <<>>
             /\ LastCall(net').op \in {"fetchMyRequests", "fetchIncomingRequests"}
             /\ LastCall(net').resp = "none"
     /\ ListsOnlyReplaced]_vars

\* the operations the claim lists, by the handler that ends them
FailingOps ==
  {"login", "register", "createSwapRequest", "ProfileModal.handleSubmit",
   "handlePhotoUpload", "updateSwapRequest", "deleteSwapRequest"} \cup ListOps

\* C10: every failed login, register, list fetch, search, create,
\* status transition, cancel, profile save or photo upload raises an alert.
C10_EveryFailureAlerts ==
  (ev.phase = "fail" /\ ev.op \in FailingOps) => ev.alert # Null

\* the three lists of a dashboard
Lists(s) == <<s.users, s.myRequests, s.incomingRequests>>

\* C11: the step in which a list fetch, a search, a create, a status
\* transition or a cancel fails leaves the users list, the outgoing list and
\* the incoming list as they were, and after a failed list fetch or search
\* the loading flag is false.
C11_FailureKeepsLists ==
  [][(ev'.phase = "fail"
        /\ ev'.op \in ListOps \cup {"createSwapRequest", "updateSwapRequest",
                                   "deleteSwapRequest"})
       => /\ Lists(cl'[ev'.c]) = Lists(cl[ev'.c])
          /\ ev'.op \in ListOps => ~cl'[ev'.c].loading]_vars

\* a fetch of the incoming list has failed over lists that hold a snapshot
C11_Witness ==
  /\ ev.op = "fetchIncomingRequests"
  /\ ev.phase = "fail"
  /\ cl["c1"].users # <<>>
  /\ cl["c1"].incomingRequests # <<>>
  /\ ~cl["c1"].loading

\* a prompt that was dismissed or left empty
Unanswered(answer) == answer = Null \/ answer = ""

\* C12: pressing Request Skill Swap on the card of user u issues no call
\* when either prompt was dismissed or left empty, and otherwise issues
\* exactly one POST /swap-requests, which carries u's id and the two
\* answers as entered.
C12_CreateOnlyWithBothSkills ==
  [][\A c \in Client, u \in Users, rs \in RequestedAnswers, os \in OfferedAnswers :
       RequestSkillSwap(c, u, rs, os)
         => IF Unanswered(rs) \/ Unanswered(os)
            THEN net' = net
            ELSE /\ Len(net') = Len(net) + 1
                 /\ SubSeq(net', 1, Len(net)) = net
                 /\ LastCall(net').op = "createSwapRequest"
                 /\ LastCall(net').resp = "none"
                 /\ LastCall(net').arg.target_user_id = u
                 /\ LastCall(net').arg.requested_skill = rs
                 /\ LastCall(net').arg.offered_skill = os]_vars

\* A has asked B for Guitar against Spanish and the one POST is in flight
C12_Witness ==
  /\ ev.op = "createSwapRequest"
  /\ ev.phase = "sent"
  /\ Cardinality({i \in 1..Len(net) : net[i].op = "createSwapRequest"}) = 1
  /\ LastCall(net).arg.target_user_id = "B"
  /\ LastCall(net).arg.requested_skill = "Guitar"
  /\ LastCall(net).arg.offered_skill = "Spanish"

\* how many calls equal to m, whether their component is mounted or not,
\* are in flight
Pending(msgs, m) ==
  Cardinality({j \in 1..Len(msgs) : [msgs[j] EXCEPT !.live = TRUE]
                                      = [m EXCEPT !.live = TRUE]})

\* the step consumes the answered call number i
Consumes(i) == Pending(net', net[i]) = Pending(net, net[i]) - 1

\* C13: the step in which a login or a register call succeeds leaves the
\* token in memory and the token in localStorage both equal to the access
\* token that call returned, and returns true, whatever the session held
\* before and whether or not the form is still mounted.
C13_LoginPersistsToken ==
  [][(ev'.op \in {"login", "register"} /\ ev'.phase = "ok")
       => /\ ev'.ret = "true"
          /\ \E i \in 1..Len(net) :
               /\ net[i].op = ev'.op
               /\ net[i].c = ev'.c
               /\ net[i].resp = "ok"
               /\ Consumes(i)
               /\ net[i].data.access_token \in Token
               /\ cl'[ev'.c].token = net[i].data.access_token
               /\ cl'[ev'.c].durable = net[i].data.access_token]_vars

\* a login as B has succeeded in a browser that held A's token
C13_Witness ==
  /\ ev.op = "login"
  /\ ev.phase = "ok"
  /\ cl["c1"].token = "tB"
  /\ cl["c1"].durable = "tB"
  /\ \E i \in 1..Len(net) : net[i].op = "fetchUser" /\ net[i].hdr = "tA"

\* the GET /auth/me calls of browser c in flight
AuthMeCalls(c) == {i \in 1..Len(net) : net[i].c = c /\ net[i].op = "fetchUser"}

\* browser c is as the process start left it: its forms untouched, its
\* session the stored token without a user
AtStart(c) == cl[c] = Fresh(cl[c].durable)

\* C14: at process start, when localStorage holds a token the token in
\* memory is that token and exactly one GET /auth/me is in flight, with that
\* token; when that call succeeds with nothing else done, the dashboard is
\* shown for the token's user and no further GET /auth/me is issued. When
\* localStorage holds no token, no call is in flight and the authentication
\* screen is shown.
C14_StartupValidatesOnce ==
  /\ [](ev.op = "init"
          => /\ cl["c1"].token = cl["c1"].durable
             /\ Screen(cl["c1"]) = "auth"
             /\ IF cl["c1"].durable = Null
                THEN net = <<>>
                ELSE /\ Len(net) = 1
                     /\ Cardinality(AuthMeCalls("c1")) = 1
                     /\ net[1].op = "fetchUser"
                     /\ net[1].hdr = cl["c1"].durable
                     /\ net[1].resp = "none")
  /\ [][(AtStart("c1") /\ Len(net) = 1 /\ net[1].op = "fetchUser"
           /\ net[1].hdr = cl["c1"].durable
           /\ net[1].resp = "ok" /\ ev'.op = "fetchUser")
          => /\ Screen(cl'["c1"]) = "dashboard"
             /\ cl'["c1"].user.id = UserOf(cl["c1"].durable)
             /\ cl'["c1"].token = cl["c1"].durable
             /\ \A i \in 1..Len(net') : net'[i].op # "fetchUser"]_vars

\* the stored token tA was validated and the dashboard of A is up, its
\* first list fetch in flight
C14_Witness ==
  /\ ev.op = "fetchUser"
  /\ ev.phase = "ok"
  /\ Screen(cl["c1"]) = "dashboard"
  /\ cl["c1"].user.id = "A"
  /\ cl["c1"].token = "tA"
  /\ cl["c1"].durable = "tA"
  /\ cl["c1"].isLogin
  /\ cl["c1"].loading
  /\ Len(net) = 1
  /\ net[1].op = "fetchUsers"

\* C15: the dashboard is rendered exactly when the token and the user are
\* both set, the authentication screen otherwise, and the step that brings
\* the dashboard up is the success of the GET /auth/me issued for the token
\* the session then holds: after a login, its follow-up call.
C15_DashboardOnlyAfterRefresh ==
  /\ [](\A c \in Client :
          Screen(cl[c]) = "dashboard"
            <=> (cl[c].token # Null /\ cl[c].user # NoUser))
  /\ [][\A c \in Client :
          (Screen(cl[c]) = "auth" /\ Screen(cl'[c]) = "dashboard")
            => /\ ev'.op = "fetchUser"
               /\ ev'.phase = "ok"
               /\ \E i \in 1..Len(net) :
                    /\ net[i].c = c
                    /\ net[i].op = "fetchUser"
                    /\ net[i].resp = "ok"
                    /\ Consumes(i)
                    /\ net[i].hdr = cl'[c].token]_vars

\* C16: after every completed handler step the token in memory and the
\* token in localStorage agree, both absent or both the same value, in every
\* interleaving of login, register, logout and refresh completions.
C16_TokenMatchesStorage ==
  \A c \in Client : cl[c].token = cl[c].durable

\* a registration has installed tB while the refresh issued for tA, which
\* the backend has refused, is still to resume and log out
C16_Witness ==
  /\ ev.op = "register"
  /\ ev.phase = "ok"
  /\ cl["c1"].token = "tB"
  /\ cl["c1"].durable = "tB"
  /\ \E i \in 1..Len(net) :
       net[i].op = "fetchUser" /\ net[i].hdr = "tA" /\ net[i].resp = "fail"

\* the requests the backend holds in which user u has the given role
HeldFor(u, role) ==
  {swaps[id] : id \in {j \in ReqIds : /\ swaps[j] # NoSwap
                                      /\ swaps[j][role] = u
                                      /\ swaps[j].status # "removed"}}

\* the sequence l lists the records of S, each once
ListsExactly(l, S) ==
  /\ {l[k] : k \in 1..Len(l)} = S
  /\ Len(l) = Cardinality(S)

RoleOf(op) == IF op = "fetchMyRequests" THEN "requester_id" ELSE "target_user_id"

\* C17: end to end between the requester B and the target A. A served
\* create stores a pending request with the requester, the target and the
\* two skills of the call; a served fetch of the outgoing or the incoming
\* list returns the caller's requests as the backend holds them at that
\* moment; the browser shows what the fetch returned; and a card of a
\* completed request offers no action in either list. So A's next incoming
\* fetch after B's create shows the request as pending with B's skills, B's
\* next outgoing fetch after A's accept shows it as accepted, and after a
\* complete and a re-fetch on both sides both show it as completed with no
\* action.
C17_EndToEndLifecycle ==
  /\ [][/\ (ev'.phase = "served" /\ ev'.op = "createSwapRequest")
             => \E i \in 1..Len(net), id \in ReqIds :
                  /\ net[i].resp = "none" /\ net'[i].resp = "ok"
                  /\ swaps[id] = NoSwap
                  /\ swaps'[id].status = "pending"
                  /\ swaps'[id].requester_id = UserOf(net[i].hdr)
                  /\ swaps'[id].target_user_id = net[i].arg.target_user_id
                  /\ swaps'[id].requested_skill = net[i].arg.requested_skill
                  /\ swaps'[id].offered_skill = net[i].arg.offered_skill
        /\ (ev'.phase = "served"
              /\ ev'.op \in {"fetchMyRequests", "fetchIncomingRequests"})
             => \E i \in 1..Len(net) :
                  /\ net[i].resp = "none" /\ net'[i].resp = "ok"
                  /\ ListsExactly(net'[i].data.requests,
                                  HeldFor(UserOf(net[i].hdr), RoleOf(ev'.op)))
        /\ (ev'.phase = "ok"
              /\ ev'.op \in {"fetchMyRequests", "fetchIncomingRequests"})
             => \E i \in 1..Len(net) :
                  /\ net[i].c = ev'.c /\ net[i].op = ev'.op /\ net[i].resp = "ok"
                  /\ Consumes(i)
                  /\ ~cl'[ev'.c].loading
                  /\ IF ev'.op = "fetchMyRequests"
                     THEN /\ cl'[ev'.c].myRequests = net[i].data.requests
                          /\ cl'[ev'.c].incomingRequests = cl[ev'.c].incomingRequests
                     ELSE /\ cl'[ev'.c].incomingRequests = net[i].data.requests
                          /\ cl'[ev'.c].myRequests = cl[ev'.c].myRequests]_vars
  /\ [](\A c \in Client : \A card \in RenderedRequestCards(cl[c]) :
          /\ card.type = (IF cl[c].activeTab = "incoming" THEN "incoming" ELSE "outgoing")
          /\ card.request.status = "completed" => Offered(card.type, "completed") = {})

\* the request B created has been accepted and completed, both sides have
\* fetched again, and each shows it as completed without any action
C17_Witness ==
  /\ net = <<>>
  /\ swaps[1].status = "completed"
  /\ RenderedRequestCards(cl["c1"]) = {[type |-> "incoming", request |-> swaps[1]]}
  /\ RenderedRequestCards(cl["c2"]) = {[type |-> "outgoing", request |-> swaps[1]]}
  /\ swaps[1].requested_skill = "Guitar"
  /\ swaps[1].offered_skill = "Spanish"
  /\ \A c \in Client : \A card \in RenderedRequestCards(cl[c]) :
       Offered(card.type, card.request.status) = {}

\* the unanswered calls of browser c to the endpoint of op
OpenCalls(msgs, c, op) ==
  Cardinality({i \in 1..Len(msgs) :
                 msgs[i].c = c /\ msgs[i].op = op /\ msgs[i].resp = "none"})

\* the step issues one call to the endpoint of op and none to the other
\* list endpoints
IssuesOneFetch(c, op) ==
  \A o \in ListOps :
    OpenCalls(net', c, o) = OpenCalls(net, c, o) + (IF o = op THEN 1 ELSE 0)

\* C18: every step that makes a tab the active one, a click on another tab
\* or the dashboard coming up on the browse tab, issues exactly one fetch of
\* that tab's list (users for browse, outgoing for my-requests, incoming for
\* incoming) and shows the loading state instead of any earlier snapshot;
\* the active tab changes in no other step.
C18_ActivationFetches ==
  [][\A c \in Client :
       LET tab == cl'[c].activeTab
           list == CASE tab = "browse" -> "fetchUsers"
                     [] tab = "my-requests" -> "fetchMyRequests"
                     [] tab = "incoming" -> "fetchIncomingRequests"
           activated == \/ ev'.op = "setActiveTab" /\ ev'.c = c
                        \/ Screen(cl[c]) = "auth" /\ Screen(cl'[c]) = "dashboard"
       IN /\ activated
            => /\ IssuesOneFetch(c, list)
               /\ cl'[c].loading
               /\ RenderedRequestCards(cl'[c]) = {}
               /\ RenderedUserCards(cl'[c]) = {}
          /\ (ev'.op = "setActiveTab" /\ ev'.c = c) => tab # cl[c].activeTab
          /\ (tab # cl[c].activeTab /\ Screen(cl'[c]) = "dashboard") => activated]_vars

\* the incoming tab has been activated again over the snapshot of its
\* earlier activation: a new fetch is in flight and the snapshot is hidden
C18_Witness ==
  /\ ev.op = "setActiveTab"
  /\ cl["c1"].activeTab = "incoming"
  /\ cl["c1"].incomingRequests # <<>>
  /\ cl["c1"].loading
  /\ LastCall(net).op = "fetchIncomingRequests"
  /\ LastCall(net).resp = "none"

\* the MIME types of the file picker that begin with image/
ImageTyped == {"image/png"}

\* C19: the selected file is always absent or image-typed and every upload
\* in flight carries an image-typed file; choosing a file that is not
\* image-typed, or closing the picker without a file, leaves the selected
\* file as it was; Upload Photo without a selected file sends nothing.
C19_OnlyImagesUploaded ==
  /\ [](\A c \in Client :
          /\ cl[c].selectedFile \in ImageTyped \cup {Null}
          /\ \A i \in 1..Len(net) :
               net[i].op = "uploadPhoto" => net[i].arg.file \in ImageTyped)
  /\ [][\A c \in Client :
          /\ \A file \in (FileTypes \ ImageTyped) \cup {Null} :
               FileChange(c, file) => cl'[c].selectedFile = cl[c].selectedFile
          /\ \A file \in ImageTyped :
               FileChange(c, file) => cl'[c].selectedFile = file
          /\ (PhotoUpload(c) /\ cl[c].selectedFile = Null) => net' = net
          /\ (PhotoUpload(c) /\ cl[c].selectedFile # Null)
               => /\ LastCall(net').op = "uploadPhoto"
                  /\ LastCall(net').arg.file = cl[c].selectedFile]_vars

\* a text file was refused after an image had been selected: the image is
\* still the selected file
C19_Witness ==
  /\ ev.op = "handleFileChange"
  /\ ev.alert = "Please select an image file."
  /\ cl["c1"].selectedFile = "image/png"

\* the login and register calls of browser c still to be answered or resumed
Submissions(c) ==
  {i \in 1..Len(net) : net[i].c = c /\ net[i].op \in {"login", "register"}}

\* C20: while the authentication screen is shown, at most one login or
\* register call of the browser is in flight, for every sequence of submits
\* and switches between the two forms.
C20_OneSubmissionInFlight ==
  \A c \in Client :
    Screen(cl[c]) = "auth" => Cardinality(Submissions(c)) <= 1

\* the tab whose list a fetch loads
TabOfList(op) ==
  CASE op \in {"fetchUsers", "searchBySkill"} -> "browse"
    [] op = "fetchMyRequests" -> "my-requests"
    [] op = "fetchIncomingRequests" -> "incoming"

\* what the active tab of the dashboard displays: its loading state, or
\* its list
Displayed(s) ==
  IF s.loading THEN <<"loading">>
  ELSE CASE s.activeTab = "browse" -> <<"users", s.users>>
         [] s.activeTab = "my-requests" -> <<"outgoing", s.myRequests>>
         [] s.activeTab = "incoming" -> <<"incoming", s.incomingRequests>>

\* C21: the answer to the fetch of a tab that is no longer the active one
\* changes nothing the active tab displays, its loading state included, and
\* the active tab shows its loading state for as long as the fetch its
\* activation started is in flight.
C21_LateAnswerLeavesActiveTab ==
  /\ [][\A c \in Client :
          (ev'.c = c /\ ev'.op \in ListOps /\ ev'.phase \in {"ok", "fail"}
             /\ Screen(cl[c]) = "dashboard"
             /\ TabOfList(ev'.op) # cl[c].activeTab)
            => Displayed(cl'[c]) = Displayed(cl[c])]_vars
  /\ [](\A c \in Client :
          (Screen(cl[c]) = "dashboard"
             /\ \E i \in 1..Len(net) :
                  /\ net[i].c = c /\ net[i].live
                  /\ net[i].op \in ListOps
                  /\ TabOfList(net[i].op) = cl[c].activeTab)
            => cl[c].loading)

\* the endpoints, by the function that calls them
Endpoints ==
  {"login", "register", "fetchUser", "createSwapRequest", "updateSwapRequest",
   "deleteSwapRequest", "uploadPhoto", "putProfile"} \cup ListOps

\* the calls of browser c to an endpoint that are in flight
CallsTo(msgs, c, op) ==
  Cardinality({i \in 1..Len(msgs) : msgs[i].c = c /\ msgs[i].op = op})

\* the endpoints called once a handler's own call has succeeded: by the
\* handler itself, by the effect of the token it stored, or by the
\* dashboard it caused to mount
FollowUps(handler) ==
  CASE handler \in {"login", "register"} -> {"fetchUser", "fetchUsers"}
    [] handler = "fetchUser" -> {"fetchUsers"}
    [] handler = "updateSwapRequest" -> {"fetchMyRequests", "fetchIncomingRequests"}
    [] handler = "deleteSwapRequest" -> {"fetchMyRequests"}
    [] handler \in {"handlePhotoUpload", "ProfileModal.handleSubmit"} -> {"fetchUser"}
    [] OTHER -> {}

\* C22: nothing is retried. A user action issues exactly one call, or none
\* when its guard stops it; the step in which a call fails issues no call at
\* all and takes the failed call out of flight; the step in which a call
\* succeeds issues at most one call to each follow-up endpoint and none to
\* the endpoint that has just answered; the backend's steps issue nothing.
C22_NoAutomaticRetry ==
  [][LET c == ev'.c
     IN /\ ev'.phase = "sent"
            => /\ Len(net') = Len(net) + 1
               /\ SubSeq(net', 1, Len(net)) = net
               /\ LastCall(net').resp = "none"
        /\ ev'.phase = "noop" => net' = net
        /\ ev'.phase = "fail"
            => /\ Len(net') = Len(net) - 1
               /\ \A op \in Endpoints : CallsTo(net', c, op) <= CallsTo(net, c, op)
        /\ ev'.phase = "ok"
            => /\ \A op \in Endpoints \ FollowUps(ev'.op) :
                    CallsTo(net', c, op) <= CallsTo(net, c, op)
               /\ \A op \in FollowUps(ev'.op) :
                    CallsTo(net', c, op) <= CallsTo(net, c, op) + 1
        /\ ev'.phase \in {"served", "refused"} => Len(net') = Len(net)]_vars

\* a swap-request creation has failed and no call is left in flight
C22_Witness ==
  /\ ev.op = "createSwapRequest"
  /\ ev.phase = "fail"
  /\ net = <<>>

\* C23: whenever a browser holds both a user and a token, the user is the
\* one the token authenticates.
C23_UserMatchesToken ==
  \A c \in Client :
    (cl[c].token # Null /\ cl[c].user # NoUser)
      => cl[c].user.id = UserOf(cl[c].token)

\* C24: a refresh that fails after another token has replaced the one it
\* was issued with leaves the session alone: the current token and the
\* stored token stay.
C24_StaleFailureKeepsSession ==
  [][\A i \in 1..Len(net) :
       (/\ net[i].op = "fetchUser"
        /\ Consumes(i)
        /\ ev'.c = net[i].c /\ ev'.op = "fetchUser" /\ ev'.phase = "fail"
        /\ net[i].hdr # cl[net[i].c].token)
         => /\ cl'[net[i].c].token = cl[net[i].c].token
            /\ cl'[net[i].c].durable = cl[net[i].c].durable]_vars

\* C25: a browser whose session is cleared (no user, no token, nothing
\* stored) stays cleared until a login or a registration succeeds; the
\* answers of calls still in flight change nothing of it.
C25_ClearedUntilNextLogin ==
  [][\A c \in Client :
       (Cleared(cl[c])
          /\ ~(ev'.c = c /\ ev'.op \in {"login", "register"} /\ ev'.phase = "ok"))
         => Cleared(cl'[c])]_vars

\* the step issues a call of browser c that carries a token
IssuesAuthenticatedCall(c) ==
  \E j \in 1..Len(net') :
    /\ net'[j].c = c
    /\ net'[j].resp = "none"
    /\ net'[j].hdr # Null
    /\ Pending(net', net'[j]) > Pending(net, net'[j])

\* C26: while a browser is logged out (its token is null before and after
\* the step), no step issues a call of that browser that carries a token:
\* the continuations of the calls that were in flight at the logout issue
\* no refresh and no re-fetch.
C26_NoCallAfterLogout ==
  [][\A c \in Client :
       (cl[c].token = Null /\ cl'[c].token = Null)
         => ~IssuesAuthenticatedCall(c)]_vars

\* C28: the steps of a photo upload (the answer to the upload, and the
\* answer to the refresh that follows it) leave the text of the editor's
\* form as it was, while the editor stays mounted.
C28_UploadKeepsForm ==
  [][\A i \in 1..Len(net) :
       (/\ Consumes(i)
        /\ ev'.c = net[i].c
        /\ ev'.phase \in {"ok", "fail"}
        /\ \/ net[i].op = "uploadPhoto"
           \/ net[i].op = "fetchUser" /\ net[i].from = "upload"
        /\ net[i].live
        /\ Screen(cl'[net[i].c]) = "dashboard")
         => cl'[net[i].c].formData = cl[net[i].c].formData]_vars

\* C27: when the answer to a users request (Show All or Search) is stored
\* and no other users request of the browser is left in flight, the stored
\* answer is the answer to the users request that was issued last.
C27_LastRequestWins ==
  [][\A i \in 1..Len(net) :
       LET m == net[i]
           c == m.c
       IN (/\ m.op \in UsersOps
           /\ m.live
           /\ Consumes(i)
           /\ ev'.c = c /\ ev'.op = m.op /\ ev'.phase = "ok"
           /\ Screen(cl'[c]) = "dashboard"
           /\ \A j \in 1..Len(net') :
                ~(net'[j].c = c /\ net'[j].live /\ net'[j].op \in UsersOps)
           /\ cl[c].asked # NoneAsked)
            => /\ <<m.op, m.arg.term>> = cl[c].asked
               /\ cl'[c].users = m.data.users]_vars

\* C29: no create-swap-request call in flight names as its target the user
\* whom the token it carries authenticates.
C29_NoRequestToSelf ==
  \A i \in 1..Len(net) :
    (net[i].op = "createSwapRequest" /\ net[i].hdr \in Token)
      => net[i].arg.target_user_id # UserOf(net[i].hdr)

\* a stored skill list as the client writes it: no entry is empty, has
\* surrounding whitespace or holds a comma
Clean(list) ==
  \A i \in 1..Len(list) :
    /\ list[i] # <<>>
    /\ Trim(list[i]) = list[i]
    /\ \A k \in 1..Len(list[i]) : list[i][k] # ","

\* C30: when the editor's form is saved as it was loaded from a clean
\* stored list, the list transmitted is the stored list; and whatever the
\* form holds, the list transmitted is a fixed point of loading and
\* parsing: it is clean, and parsing its display form gives it back.
C30_SkillsRoundTrip ==
  \A c \in Client :
    (ev.c = c /\ ev.op = "ProfileModal.handleSubmit" /\ ev.phase = "sent")
      => LET sent == LastCall(net).arg.skills_offered
             stored == cl[c].user.skills_offered
         IN /\ (cl[c].formData = FormFromUser(cl[c].user) /\ Clean(stored))
                 => sent = stored
            /\ Clean(sent)
            /\ ParseSkills(Join(sent)) = sent
            /\ ParseSkills(Join(ParseSkills(cl[c].formData)))
                 = ParseSkills(cl[c].formData)

\* the list "b", "a", stored by an earlier save, has been loaded into the
\* form and saved again unedited
C30_Witness ==
  /\ ev.op = "ProfileModal.handleSubmit"
  /\ ev.phase = "sent"
  /\ cl["c1"].user.skills_offered = <<<<"b">>, <<"a">>>>
  /\ cl["c1"].formData = <<"b", ",", " ", "a">>
  /\ LastCall(net).arg.skills_offered = <<<<"b">>, <<"a">>>>

=============================================================================
